---- MODULE Spec2Model ----
(***************************************************************************)
(* Model of src/arxiv.py: extrair_dados_arxiv_json, the pagination and     *)
(* extraction loop over the arXiv search listing, and the final JSON save. *)
(*                                                                         *)
(* A Python str is a sequence of tokens (a token stands for a character or *)
(* an indivisible word such as a label), a list is a sequence, a dict is a *)
(* function from its keys.  A value stored in a record is tagged with its  *)
(* Python type so that the str 'N/A' and a list never compare equal.       *)
(***************************************************************************)
EXTENDS Integers, Sequences, FiniteSets, TLC

\* ---------------------------------------------------------------- bounds
MaxPaginas == 2      \* non-empty pages the server serves in one run
MaxBlocos == 2       \* result blocks per page
MaxComentarios == 2  \* "comments is-size-7" paragraphs per result block
MaxCandidatos == 4   \* candidate phrases the keyword model ranks

\* ------------------------------------------------------ program constants
TamPagina == 200     \* start += 200
TopN == 3            \* top_n=3

\* ------------------------------------------------------- Python values
VStr(s) == [tipo |-> "str", str |-> s, lista |-> <<>>, int |-> 0]
VLista(l) == [tipo |-> "list", str |-> <<>>, lista |-> l, int |-> 0]
VInt(n) == [tipo |-> "int", str |-> <<>>, lista |-> <<>>, int |-> n]

\* the literal 'N/A'
NA == VStr(<<"N/A">>)

\* dados_artigo[chave] = valor
Put(d, chave, valor) ==
  [k \in (DOMAIN d) \cup {chave} |-> IF k = chave THEN valor ELSE d[k]]

\* dados_artigo = {}
DictVazio == [k \in {} |-> NA]

\* -------------------------------------------------------- str methods
Brancos == {" "}
Aspas == {"\""}

RECURSIVE lstrip(_, _)
lstrip(s, chars) ==
  IF s # <<>> /\ Head(s) \in chars THEN lstrip(Tail(s), chars) ELSE s

RECURSIVE rstrip(_, _)
rstrip(s, chars) ==
  IF s # <<>> /\ s[Len(s)] \in chars
    THEN rstrip(SubSeq(s, 1, Len(s) - 1), chars)
    ELSE s

\* str.strip() and str.strip(chars)
strip(s, chars) == rstrip(lstrip(s, chars), chars)

\* str.replace(old, ''): every occurrence is removed
replace(s, old) == SelectSeq(s, LAMBDA t : t # old)

\* str.startswith(prefixo)
startswith(s, prefixo) == s # <<>> /\ Head(s) = prefixo

\* re.sub(r'\s+', ' ', s): each run of whitespace becomes one space
RECURSIVE sub_espacos(_)
sub_espacos(s) ==
  IF s = <<>> THEN <<>>
  ELSE IF Head(s) \in Brancos
    THEN <<" ">> \o sub_espacos(lstrip(s, Brancos))
    ELSE <<Head(s)>> \o sub_espacos(Tail(s))

\* str.split(sep): the pieces between separators, [''] for the empty str
RECURSIVE split(_, _)
split(s, sep) ==
  IF \E n \in 1..Len(s) : s[n] = sep
    THEN LET n == CHOOSE m \in 1..Len(s) :
                    s[m] = sep /\ \A j \in 1..(m - 1) : s[j] # sep
         IN <<SubSeq(s, 1, n - 1)>> \o split(SubSeq(s, n + 1, Len(s)), sep)
    ELSE <<s>>

\* find(...) on the elements find_all(...) returns: the first one or None
\* (None is the empty sequence, an element is a one-element sequence)
find(elementos) == IF elementos = <<>> THEN <<>> ELSE <<Head(elementos)>>

\* ------------------------------------------------------ keyword model
\* kw_model.extract_keywords(doc, keyphrase_ngram_range=(1, 3), top_n=n):
\* the n best of the (phrase, score) candidates the model ranked for doc
extract_keywords(candidatos, n) ==
  SubSeq(candidatos, 1, IF Len(candidatos) < n THEN Len(candidatos) ELSE n)

\* the ranking the model computes: a black box, any list of distinct
\* phrases of one to three words by descending score
Ranking(n) == [j \in 1..n |-> <<<<"kw", ToString(j)>>, n - j>>]
Rankings == {Ranking(n) : n \in 0..MaxCandidatos}

\* --------------------------------------------------------- markup model
\* A result block (li.arxiv-result) is the record of what each selector of
\* the code finds in it, in document order.  An element is the token
\* sequence of its text; a paragraph is a sequence of child nodes.
Span(t) == [tag |-> "span", texto |-> t]
Texto(t) == [tag |-> "texto", texto |-> t]

\* element.get_text() of a paragraph: the texts of its nodes, concatenated
RECURSIVE get_text(_)
get_text(p) == IF p = <<>> THEN <<>> ELSE Head(p).texto \o get_text(Tail(p))

\* p.find("span"): the first span child, or None
spans(p) == SelectSeq(p, LAMBDA n : n.tag = "span")

\* "Journal ref" in texto: the tokens that contain that substring
TokensJournalRef == {"Journal ref:"}
ContemJournalRef(t) == \E n \in 1..Len(t) : t[n] \in TokensJournalRef

\* int(match.group(1)) for the tokens r"\b(20\d{2})\b" matches
int_de == ("2022" :> 2022) @@ ("2023" :> 2023)

\* re.search(r"\b(20\d{2})\b", texto): the first matching token, or None
re_search_ano(t) ==
  LET achados == SelectSeq(t, LAMBDA tok : tok \in DOMAIN int_de)
  IN find(achados)

\* ----------------------------------------------------- field extraction
\* lines 63-64
Titulo(d, artigo) ==
  LET title_tag == find(artigo.title)
  IN Put(d, "titulo",
         IF title_tag # <<>> THEN VStr(strip(title_tag[1], Brancos)) ELSE NA)

\* Autores without the else branch of line 74
AutoresSemSentinela(d, artigo) ==
  LET authors_div == find(artigo.authors)
  IN IF authors_div # <<>>
       THEN Put(d, "autores", VLista(split(authors_div[1], ",")))
       ELSE d

\* lines 67-74
Autores(d, artigo) ==
  LET authors_div == find(artigo.authors)
  IN IF authors_div # <<>>
       THEN LET authors_text == strip(replace(authors_div[1], "Authors:"), Brancos)
                pedacos == split(strip(sub_espacos(authors_text), Brancos), ",")
            IN Put(d, "autores",
                   VLista([n \in 1..Len(pedacos) |-> strip(pedacos[n], Brancos)]))
       ELSE Put(d, "autores", NA)

\* lines 77-84
Abstract(d, artigo) ==
  LET abstract_div == find(artigo.abstract_full)
  IN IF abstract_div # <<>>
       THEN LET t0 == strip(abstract_div[1], Brancos)
                abstract_text == IF startswith(t0, "Abstract:")
                                   THEN strip(Tail(t0), Brancos)
                                   ELSE t0
            IN Put(d, "abstract", VStr(abstract_text))
       ELSE Put(d, "abstract", NA)

\* line 86: the model is called on dados_artigo['abstract'] whatever it
\* holds; ranking is what the model ranks for that text
Keywords(d, ranking) ==
  LET pares == extract_keywords(ranking, TopN)
  IN Put(d, "keywords", VLista([n \in 1..Len(pares) |-> pares[n][1]]))

\* lines 89-98
Categorias(d, artigo) ==
  LET strips(els) == [n \in 1..Len(els) |-> strip(els[n], Brancos)]
      d1 == Put(d, "categorias", VLista(<<>>))
      d2 == IF artigo.tags_link # <<>>
              THEN Put(d1, "categorias", VLista(strips(artigo.tags_link)))
              ELSE d1
  IN IF artigo.tags_grey # <<>>
       THEN Put(d2, "categorias",
                VLista(d2["categorias"].lista \o strips(artigo.tags_grey)))
       ELSE d2

\* lines 101-112
Ano(d, artigo) ==
  LET metadata_p == find(artigo.is_size_7)
      d1 == Put(d, "ano", NA)
  IN IF metadata_p # <<>>
       THEN LET match == re_search_ano(split(metadata_p[1], ";")[1])
            IN IF match # <<>> /\ int_de[match[1]] # 0
                 THEN Put(d1, "ano", VInt(int_de[match[1]]))
                 ELSE Put(d1, "ano", NA)
       ELSE d1

\* line 120
LimpaJournal(t) ==
  strip(strip(strip(replace(t, "Journal ref:"), Brancos), Aspas), Brancos)

\* JournalLoop leaving the loop at the first match
RECURSIVE JournalLoopComBreak(_, _)
JournalLoopComBreak(ps, atual) ==
  IF ps = <<>> THEN atual
  ELSE LET p == Head(ps)
           span == find(spans(p))
       IN IF span # <<>> /\ ContemJournalRef(span[1].texto)
            THEN VStr(LimpaJournal(get_text(p)))
            ELSE JournalLoopComBreak(Tail(ps), atual)

\* lines 117-121: the loop over the comments paragraphs
RECURSIVE JournalLoop(_, _)
JournalLoop(ps, atual) ==
  IF ps = <<>> THEN atual
  ELSE LET p == Head(ps)
           span == find(spans(p))
       IN IF span # <<>> /\ ContemJournalRef(span[1].texto)
            THEN JournalLoop(Tail(ps), VStr(LimpaJournal(get_text(p))))
            ELSE JournalLoop(Tail(ps), atual)

\* lines 114-121
Journal(d, artigo) ==
  Put(d, "journal_revista", JournalLoop(artigo.comments, NA))

\* lines 60-121: the record built for one result block
Registro(artigo, ranking) ==
  Journal(Ano(Categorias(Keywords(Abstract(Autores(Titulo(DictVazio,
    artigo), artigo), artigo), ranking), artigo), artigo), artigo)

\* ------------------------------------------------------- input domains
OpTitle == {<<>>, <<<<" ", "T1", " ">>>>, <<<<"T2">>>>}
OpAuthors == {<<>>, <<<<"Authors:", " ", "A", ",", " ", " ", "B", " ">>>>}
OpAbstract == {<<>>, <<<<" ", "Abstract:", " ", "texto", " ">>>>, <<<<"texto">>>>}
OpTagsLink == {<<>>, <<<<"cs.AI">>, <<" ", "quant-ph">>>>}
OpTagsGrey == {<<>>, <<<<"physics.gen-ph", " ">>>>}
OpIsSize7 == {<<>>,
              <<<<"Submitted", " ", "2022", ";", "revised", " ", "2023">>>>,
              <<<<"Submitted", " ", "1999", ";", "2023">>>>}
PJ1 == <<Span(<<"Journal ref:">>), Texto(<<" ", "\"", "PRA", "\"", " ">>)>>
PJ2 == <<Span(<<"Journal ref:">>), Texto(<<" ", "PRB">>)>>
PComments == <<Span(<<"Comments:">>), Span(<<" ", "12p">>)>>
PSemSpan == <<Texto(<<"ver", " ", "Journal ref:">>)>>
Paragrafos == {PJ1, PJ2, PComments, PSemSpan}

SeqAte(S, n) == UNION {[1..m -> S] : m \in 0..n}

\* the result blocks the extraction is explored with: every combination
\* of present and absent elements, and, on a block with or without an
\* abstract, every text variant and every sequence of comments paragraphs
Presente(op) == {<<>>, CHOOSE e \in op : e # <<>>}
BlocosPresenca ==
  [title : Presente(OpTitle), authors : Presente(OpAuthors),
   abstract_full : Presente(OpAbstract), tags_link : Presente(OpTagsLink),
   tags_grey : Presente(OpTagsGrey), is_size_7 : Presente(OpIsSize7),
   comments : {<<>>, <<PJ1>>}]
BlocosVariantes ==
  [title : OpTitle, authors : OpAuthors \ {<<>>},
   abstract_full : OpAbstract, tags_link : OpTagsLink \ {<<>>},
   tags_grey : {<<>>}, is_size_7 : OpIsSize7, comments : {<<>>}]
BlocosComentarios ==
  [title : OpTitle \ {<<>>}, authors : {<<>>},
   abstract_full : Presente(OpAbstract), tags_link : {<<>>},
   tags_grey : {<<>>}, is_size_7 : {<<>>},
   comments : SeqAte(Paragrafos, MaxComentarios)]
BlocosTodos == BlocosPresenca \cup BlocosVariantes \cup BlocosComentarios

\* the blocks the pagination runs are explored with: a complete one, and
\* one with two journal references and neither authors nor abstract
BlocosLoop ==
  { [title |-> <<<<" ", "T1", " ">>>>,
     authors |-> <<<<"Authors:", " ", "A", ",", " ", " ", "B", " ">>>>,
     abstract_full |-> <<<<" ", "Abstract:", " ", "texto", " ">>>>,
     tags_link |-> <<<<"cs.AI">>, <<" ", "quant-ph">>>>,
     tags_grey |-> <<<<"physics.gen-ph", " ">>>>,
     is_size_7 |-> <<<<"Submitted", " ", "2022", ";", "revised", " ", "2023">>>>,
     comments |-> <<PJ1>>],
    [title |-> <<<<"T2">>>>, authors |-> <<>>, abstract_full |-> <<>>,
     tags_link |-> <<>>, tags_grey |-> <<<<"physics.gen-ph", " ">>>>,
     is_size_7 |-> <<<<"Submitted", " ", "1999", ";", "2023">>>>,
     comments |-> <<PJ1, PJ2>>] }

\* pages of result blocks: soup.find_all('li', class_='arxiv-result')
PaginasLoop == SeqAte(BlocosLoop, MaxBlocos) \ {<<>>}
PaginasCampos == {<<b>> : b \in BlocosTodos}
RankingsLoop == {Ranking(MaxCandidatos)}

\* what a previous run left in arquivo_saida
BlocoAnterior ==
  [title |-> <<<<"T0">>>>, authors |-> <<>>, abstract_full |-> <<>>,
   tags_link |-> <<>>, tags_grey |-> <<>>, is_size_7 |-> <<>>,
   comments |-> <<>>]
RegistrosAnteriores == <<Registro(BlocoAnterior, Ranking(0))>>
ArquivoAusente == [estado |-> "ausente", registros |-> <<>>]
ArquivoAnterior == [estado |-> "integro", registros |-> RegistrosAnteriores]

\* ---------------------------------------------------------------- state
VARIABLES
  pc,                 \* position: requisitar, processar, salvar, fim, abortado
  start,              \* pagination offset
  todos_os_artigos,   \* the accumulator
  artigos_na_pagina,  \* result blocks of the page being processed
  indice,             \* position of the for loop in artigos_na_pagina
  arquivo,            \* arquivo_saida on disk
  mensagem,           \* which of the final messages was printed
  requisicoes,        \* history: the offsets of the requests issued
  respostas,          \* history: what each request got
  chamadas_kw,        \* history: the calls kw_model.extract_keywords answered
  termino,            \* how the while loop was left
  escritas            \* history: times arquivo_saida was opened for writing

vars == <<pc, start, todos_os_artigos, artigos_na_pagina, indice, arquivo,
          mensagem, requisicoes, respostas, chamadas_kw, termino, escritas>>

\* what a request got: the exception requests.get raised, or the status
\* of the response and, when it was parsed, the result blocks found
Levantou(e) == [excecao |-> e, status_code |-> 0, artigos |-> <<>>]
Respondeu(status_code, artigos) ==
  [excecao |-> "", status_code |-> status_code, artigos |-> artigos]

\* the non-empty pages received so far, in order
RECURSIVE PaginasDe(_)
PaginasDe(rs) ==
  IF rs = <<>> THEN <<>>
  ELSE IF Head(rs).artigos # <<>>
    THEN <<Head(rs).artigos>> \o PaginasDe(Tail(rs))
    ELSE PaginasDe(Tail(rs))

\* ------------------------------------------------------------ exceptions
\* requests.exceptions.RequestException and its subclasses
EhRequestException(e) == e \in {"Timeout", "ConnectionError", "HTTPError"}

\* Tratamento with the except Exception clause missing
TratamentoSoRequisicao(e) ==
  IF EhRequestException(e) THEN "requisicao" ELSE "propagada"

\* lines 131-136: which except clause takes e; every exception the calls
\* in the try block raise derives from Exception
Tratamento(e) ==
  IF EhRequestException(e) THEN "requisicao" ELSE "inesperado"

\* lines 131-136: both clauses print and break, and the code after the
\* loop runs; an exception no clause takes would leave the function
AposExcecao(e) ==
  /\ termino' = Tratamento(e)
  /\ pc' = IF Tratamento(e) \in {"requisicao", "inesperado"}
             THEN "salvar" ELSE "abortado"

\* StatusDeErro that lets the 5xx statuses through
StatusDeErroSo4xx(status_code) == status_code >= 400 /\ status_code < 500

\* response.raise_for_status(): HTTPError on 4xx and 5xx
StatusDeErro(status_code) == status_code >= 400 /\ status_code < 600
StatusPossiveis == {200, 404, 503}

\* SemArtigos that never sees the end of the results
SemArtigosNunca(artigos) == FALSE

\* line 52: if not artigos_na_pagina
SemArtigos(artigos) == artigos = <<>>

\* ProximoStart counting pages instead of results
ProximoStartPorPagina(s) == s + 1

\* line 127
ProximoStart(s) == s + TamPagina

\* Acrescenta inserting at the front
AcrescentaNoInicio(lista, dados_artigo) == <<dados_artigo>> \o lista

\* line 124
Acrescenta(lista, dados_artigo) == Append(lista, dados_artigo)

\* DeveSalvar without the emptiness test
SalvaSempre(lista) == TRUE

\* line 139: if todos_os_artigos
DeveSalvar(lista) == lista # <<>>

\* ConteudoGravado with the file opened in mode 'a'
ConteudoAnexado(anterior, lista) == anterior \o lista

\* lines 141-143: mode 'w' truncates, json.dump writes the list in order
ConteudoGravado(anterior, lista) == lista

Init ==
  /\ pc = "requisitar"
  /\ start = 0
  /\ todos_os_artigos = <<>>
  /\ artigos_na_pagina = <<>>
  /\ indice = 1
  /\ arquivo \in {ArquivoAusente, ArquivoAnterior}
  /\ mensagem = ""
  /\ requisicoes = <<>>
  /\ respostas = <<>>
  /\ chamadas_kw = <<>>
  /\ termino = "nenhum"
  /\ escritas = 0

\* ---------------------------------------------------------------- actions
\* line 42: requests.get raises (timeout, connection error)
FalhaTransporte ==
  /\ pc = "requisitar"
  /\ requisicoes' = Append(requisicoes, start)
  /\ \E e \in {"Timeout", "ConnectionError"} :
       /\ respostas' = Append(respostas, Levantou(e))
       /\ AposExcecao(e)
  /\ UNCHANGED <<start, todos_os_artigos, artigos_na_pagina, indice, arquivo,
                 mensagem, chamadas_kw, escritas>>

\* lines 42-56: a response arrives; raise_for_status() raises on an error
\* status, otherwise the body is parsed and the result blocks are counted
Resposta(possiveis, maxPag) ==
  /\ pc = "requisitar"
  /\ requisicoes' = Append(requisicoes, start)
  /\ \E status_code \in StatusPossiveis :
       IF StatusDeErro(status_code)
         THEN /\ respostas' = Append(respostas, Respondeu(status_code, <<>>))
              /\ AposExcecao("HTTPError")
              /\ UNCHANGED <<artigos_na_pagina, indice>>
         ELSE \E artigos \in (IF Len(PaginasDe(respostas)) < maxPag
                                THEN possiveis ELSE {}) \cup {<<>>} :
                /\ respostas' = Append(respostas,
                                       Respondeu(status_code, artigos))
                /\ artigos_na_pagina' = artigos
                /\ IF SemArtigos(artigos)
                     THEN /\ termino' = "vazio"
                          /\ pc' = "salvar"
                          /\ UNCHANGED indice
                     ELSE /\ indice' = 1
                          /\ pc' = "processar"
                          /\ UNCHANGED termino
  /\ UNCHANGED <<start, todos_os_artigos, arquivo, mensagem, chamadas_kw,
                 escritas>>

\* lines 59-124: one iteration of the for loop
ProcessaArtigo(rankings) ==
  /\ pc = "processar"
  /\ indice <= Len(artigos_na_pagina)
  /\ \E ranking \in rankings :
       LET artigo == artigos_na_pagina[indice]
           dados_artigo == Registro(artigo, ranking)
       IN /\ todos_os_artigos' = Acrescenta(todos_os_artigos, dados_artigo)
          /\ chamadas_kw' = Append(chamadas_kw,
                [doc |-> Abstract(DictVazio, artigo)["abstract"],
                 ranking |-> ranking])
  /\ indice' = indice + 1
  /\ UNCHANGED <<pc, start, artigos_na_pagina, arquivo, mensagem,
                 requisicoes, respostas, termino, escritas>>

\* line 86 raises: the keyword model call fails inside the for loop
ErroInesperado ==
  /\ pc = "processar"
  /\ indice <= Len(artigos_na_pagina)
  /\ AposExcecao("RuntimeError")
  /\ UNCHANGED <<start, todos_os_artigos, artigos_na_pagina, indice, arquivo,
                 mensagem, requisicoes, respostas, chamadas_kw, escritas>>

\* lines 126-130: the for loop is over; advance and sleep
ProximaPagina ==
  /\ pc = "processar"
  /\ indice > Len(artigos_na_pagina)
  /\ start' = ProximoStart(start)
  /\ pc' = "requisitar"
  /\ UNCHANGED <<todos_os_artigos, artigos_na_pagina, indice, arquivo,
                 mensagem, requisicoes, respostas, chamadas_kw, termino,
                 escritas>>

\* lines 139-146: the list is not empty and the write succeeds
Salva ==
  /\ pc = "salvar"
  /\ DeveSalvar(todos_os_artigos)
  /\ escritas' = escritas + 1
  /\ arquivo' = [estado |-> "integro",
                 registros |-> ConteudoGravado(arquivo.registros,
                                               todos_os_artigos)]
  /\ mensagem' = "salvos"
  /\ pc' = "fim"
  /\ UNCHANGED <<start, todos_os_artigos, artigos_na_pagina, indice,
                 requisicoes, respostas, chamadas_kw, termino>>

\* lines 139-148: IOError from open (the file is left as it was) or from
\* json.dump (the file was truncated and holds part of the text)
SalvaFalha ==
  /\ pc = "salvar"
  /\ DeveSalvar(todos_os_artigos)
  /\ escritas' = escritas + 1
  /\ \/ arquivo' = arquivo
     \/ arquivo' = [estado |-> "truncado", registros |-> <<>>]
  /\ mensagem' = "erro ao salvar"
  /\ pc' = "fim"
  /\ UNCHANGED <<start, todos_os_artigos, artigos_na_pagina, indice,
                 requisicoes, respostas, chamadas_kw, termino>>

\* lines 149-150: nothing was extracted, nothing is written
NadaASalvar ==
  /\ pc = "salvar"
  /\ ~DeveSalvar(todos_os_artigos)
  /\ mensagem' = "nenhum artigo"
  /\ pc' = "fim"
  /\ UNCHANGED <<start, todos_os_artigos, artigos_na_pagina, indice, arquivo,
                 requisicoes, respostas, chamadas_kw, termino, escritas>>

Next ==
  \/ FalhaTransporte
  \/ Resposta(PaginasLoop, MaxPaginas)
  \/ ProcessaArtigo(RankingsLoop)
  \/ ErroInesperado
  \/ ProximaPagina
  \/ Salva
  \/ SalvaFalha
  \/ NadaASalvar

Spec == Init /\ [][Next]_vars

\* runs over one page of one result block, of every shape, with every
\* ranking of the keyword model
NextCampos ==
  \/ FalhaTransporte
  \/ Resposta(PaginasCampos, 1)
  \/ ProcessaArtigo(Rankings)
  \/ ErroInesperado
  \/ ProximaPagina
  \/ Salva
  \/ SalvaFalha
  \/ NadaASalvar

SpecCampos == Init /\ [][NextCampos]_vars

\* ================================================================ claims
RECURSIVE Aplanar(_)
Aplanar(ps) == IF ps = <<>> THEN <<>> ELSE Head(ps) \o Aplanar(Tail(ps))

\* the result blocks received so far, in page order then document order
BlocosRecebidos == Aplanar(PaginasDe(respostas))

\* the request got no usable page: an exception or a 4xx/5xx status
Falhou(r) == r.excecao # "" \/ (r.status_code >= 400 /\ r.status_code <= 599)

\* the request got a page with no result block
Vazia(r) == ~Falhou(r) /\ r.artigos = <<>>

\* the request got a page with result blocks
Cheia(r) == ~Falhou(r) /\ r.artigos # <<>>

\* the record expected at position n of the accumulator
Esperado(n) == Registro(BlocosRecebidos[n], chamadas_kw[n].ranking)

EhPrefixo(a, b) == Len(a) <= Len(b) /\ SubSeq(b, 1, Len(a)) = a

Campos == {"titulo", "autores", "abstract", "keywords", "categorias", "ano",
           "journal_revista"}

\* C1: the i-th request issued (counting from 0) uses start = 200*i: the
\* offsets are 0, 200, 400, ... with none skipped and none repeated
C1_OffsetsEmProgressao ==
  /\ Len(requisicoes) = Len(respostas)
  /\ \A n \in 1..Len(requisicoes) : requisicoes[n] = 200 * (n - 1)

\* C1 witness: three requests were issued
C1_Witness == Len(requisicoes) = 3 /\ requisicoes[3] = 400

\* C2: a successfully fetched page with zero result blocks ends the loop
\* normally at that page: it is the last request ever issued, and no record
\* is appended for it
C2_PaginaVaziaTermina ==
  \A n \in 1..Len(respostas) :
    Vazia(respostas[n]) =>
      /\ n = Len(respostas)
      /\ termino = "vazio"
      /\ pc \in {"salvar", "fim"}
      /\ Len(todos_os_artigos) = Len(BlocosRecebidos)

\* C2 witness: the third page was empty after two pages of records, and the
\* run is over
C2_Witness ==
  /\ pc = "fim"
  /\ Len(respostas) = 3
  /\ Vazia(respostas[3])
  /\ Len(todos_os_artigos) >= 2

\* C3 as stated: a transport failure on the request after k >= 1 good pages
\* is the last request, and the output file then holds exactly the records
\* of those k pages
C3_Original ==
  (pc = "fim" /\ termino = "requisicao" /\ Len(respostas) >= 2) =>
    /\ Falhou(respostas[Len(respostas)])
    /\ arquivo = [estado |-> "integro", registros |-> todos_os_artigos]

\* C3 amended: a failed request is never retried nor followed by another
\* request and is not propagated; after k >= 1 good pages the save step runs
\* once on exactly the records of those k pages, and the file holds exactly
\* them unless the write itself fails with an I/O error, which is reported
C3_FalhaSalvaParcial ==
  /\ pc # "abortado"
  /\ Len(requisicoes) = Len(respostas)
  /\ \A n \in 1..Len(respostas) :
       Falhou(respostas[n]) =>
         /\ n = Len(respostas)
         /\ termino = "requisicao"
         /\ pc \in {"salvar", "fim"}
         /\ \A m \in 1..(n - 1) : Cheia(respostas[m])
         /\ Len(todos_os_artigos) = Len(BlocosRecebidos)
         /\ \A m \in 1..Len(todos_os_artigos) : todos_os_artigos[m] = Esperado(m)
         /\ (pc = "fim" /\ n >= 2) =>
              /\ escritas = 1
              /\ mensagem \in {"salvos", "erro ao salvar"}
              /\ mensagem = "salvos" =>
                   arquivo = [estado |-> "integro",
                              registros |-> todos_os_artigos]

\* C3 witness: the third request failed after two good pages and the
\* records of the two pages were saved
C3_Witness ==
  /\ pc = "fim"
  /\ Len(respostas) = 3
  /\ Falhou(respostas[3])
  /\ mensagem = "salvos"
  /\ Len(arquivo.registros) = Len(respostas[1].artigos) + Len(respostas[2].artigos)

\* a value a field may hold: a str, a list of str, an int, or 'N/A'
ValorValido(campo, v) ==
  CASE campo \in {"titulo", "abstract", "journal_revista"} -> v.tipo = "str"
    [] campo = "autores" -> v.tipo = "list" \/ v = NA
    [] campo \in {"keywords", "categorias"} -> v.tipo = "list"
    [] campo = "ano" -> v.tipo = "int" \/ v = NA

\* C4: every record in the accumulator has the seven fields, each holding a
\* value, an empty sequence or 'N/A', whatever elements its block lacks
C4_SeteCampos ==
  \A n \in 1..Len(todos_os_artigos) :
    /\ DOMAIN todos_os_artigos[n] = Campos
    /\ \A campo \in Campos : ValorValido(campo, todos_os_artigos[n][campo])

\* C4 witness: a record was appended for a block with no element at all
C4_Witness ==
  /\ Len(todos_os_artigos) = 1
  /\ BlocosRecebidos[1].title = <<>>
  /\ BlocosRecebidos[1].authors = <<>>
  /\ BlocosRecebidos[1].abstract_full = <<>>
  /\ BlocosRecebidos[1].tags_link = <<>>
  /\ BlocosRecebidos[1].tags_grey = <<>>
  /\ BlocosRecebidos[1].is_size_7 = <<>>
  /\ BlocosRecebidos[1].comments = <<>>
  /\ todos_os_artigos[1]["autores"] = NA

\* the accumulator holds, in order, the records of the first blocks received
EmOrdemDeDescoberta ==
  /\ Len(todos_os_artigos) <= Len(BlocosRecebidos)
  /\ Len(chamadas_kw) = Len(todos_os_artigos)
  /\ \A n \in 1..Len(todos_os_artigos) : todos_os_artigos[n] = Esperado(n)

\* C5: the accumulator is append-only (its previous contents stay an
\* unchanged prefix) and ordered by page, then by position in the page
C5_SoAcrescenta ==
  /\ []EmOrdemDeDescoberta
  /\ [][EhPrefixo(todos_os_artigos, todos_os_artigos')]_vars

\* C5 witness: records of two pages of two blocks are in the accumulator
C5_Witness ==
  /\ Len(todos_os_artigos) = 4
  /\ Len(PaginasDe(respostas)) = 2
  /\ todos_os_artigos[1] # todos_os_artigos[2]
  /\ todos_os_artigos[2] # todos_os_artigos[3]

\* C6 as stated: the file is written at most once, only after the loop has
\* ended, and it is written if and only if a record was accumulated
C6_Original ==
  /\ escritas <= 1
  /\ escritas = 1 => pc = "fim"
  /\ pc = "fim" =>
       (arquivo = [estado |-> "integro", registros |-> todos_os_artigos]
          <=> todos_os_artigos # <<>>)

\* C6 amended: the file is opened for writing at most once, only after the
\* loop has ended, and if and only if a record was accumulated; it is never
\* touched before; the write can fail with an I/O error, and then the file
\* does not hold the records
C6_EscritaUnica ==
  [][/\ escritas' <= 1
     /\ escritas' = 1 => pc' = "fim"
     /\ pc' = "fim" => (escritas' = 1 <=> todos_os_artigos' # <<>>)
     /\ arquivo' # arquivo => (pc = "salvar" /\ termino # "nenhum"
                                /\ todos_os_artigos # <<>>)
     /\ (pc' = "fim" /\ mensagem' = "salvos") =>
          arquivo' = [estado |-> "integro", registros |-> todos_os_artigos']
     /\ pc' = "fim" => (mensagem' = "nenhum artigo" <=> todos_os_artigos' = <<>>)
    ]_vars

\* C6 witness: a run ended without any record and without a write
C6_Witness ==
  /\ pc = "fim"
  /\ todos_os_artigos = <<>>
  /\ escritas = 0
  /\ termino = "vazio"

\* C7: keywords has at most 3 phrases and is empty whenever the block has no
\* abstract element, whatever the keyword model returns for 'N/A'
C7_KeywordsVaziasSemAbstract ==
  \A n \in 1..Len(todos_os_artigos) :
    /\ Len(todos_os_artigos[n]["keywords"].lista) <= 3
    /\ BlocosRecebidos[n].abstract_full = <<>> =>
         todos_os_artigos[n]["keywords"].lista = <<>>

\* the comments paragraphs of a block whose label contains "Journal ref"
ComJournalRef(ps) ==
  {n \in 1..Len(ps) :
     \E m \in 1..Len(ps[n]) :
       /\ ps[n][m].tag = "span"
       /\ \A j \in 1..(m - 1) : ps[n][j].tag # "span"
       /\ \E t \in 1..Len(ps[n][m].texto) : ps[n][m].texto[t] = "Journal ref:"}

Minimo(S) == CHOOSE x \in S : \A y \in S : x <= y
Maximo(S) == CHOOSE x \in S : \A y \in S : x >= y

\* the journal reference taken from paragraph p
JournalDe(p) == VStr(LimpaJournal(get_text(p)))

\* C8 as stated: the journal reference comes from the first matching
\* paragraph, and is 'N/A' when none matches
C8_Original ==
  \A n \in 1..Len(todos_os_artigos) :
    LET ps == BlocosRecebidos[n].comments
        M == ComJournalRef(ps)
    IN todos_os_artigos[n]["journal_revista"] =
         IF M = {} THEN NA ELSE JournalDe(ps[Minimo(M)])

\* C8 amended: the journal reference comes from the last matching paragraph
\* in document order (a later match replaces an earlier one), with the
\* label, surrounding whitespace and quotes stripped; 'N/A' when none matches
C8_UltimoJournalRef ==
  \A n \in 1..Len(todos_os_artigos) :
    LET ps == BlocosRecebidos[n].comments
        M == ComJournalRef(ps)
        v == todos_os_artigos[n]["journal_revista"]
    IN /\ v = IF M = {} THEN NA ELSE JournalDe(ps[Maximo(M)])
       /\ (M # {} /\ ps[Maximo(M)] = PJ1) => v = VStr(<<"PRA">>)
       /\ (M # {} /\ ps[Maximo(M)] = PJ2) => v = VStr(<<"PRB">>)

\* C8 witness: a block with two different matching paragraphs was processed
C8_Witness ==
  /\ Len(todos_os_artigos) = 1
  /\ BlocosRecebidos[1].comments = <<PJ1, PJ2>>
  /\ todos_os_artigos[1]["journal_revista"] = VStr(<<"PRB">>)

\* C9 as stated: after any run, also one that obtained no record, the file
\* holds nothing that comes from a previous run
C9_Original ==
  /\ requisicoes # <<>> => requisicoes[1] = 0
  /\ pc = "fim" =>
       \A n \in 1..Len(arquivo.registros) :
         \A m \in 1..Len(RegistrosAnteriores) :
           arquivo.registros[n] # RegistrosAnteriores[m]

\* C9 amended: a run starts at offset 0 with an empty accumulator; when it
\* accumulated a record and the write succeeds the file is fully overwritten
\* and holds exactly that run's records; a run that obtained no record does
\* not touch the file, which keeps what a previous run left
C9_SobrescreveSeSalva ==
  /\ [](/\ requisicoes # <<>> => requisicoes[1] = 0
        /\ (pc = "fim" /\ mensagem = "salvos") =>
             /\ todos_os_artigos # <<>>
             /\ arquivo = [estado |-> "integro",
                           registros |-> todos_os_artigos]
             /\ \A n \in 1..Len(arquivo.registros) :
                  arquivo.registros[n] = Esperado(n))
  /\ [][/\ (pc = "salvar" /\ todos_os_artigos = <<>>) => arquivo' = arquivo
        /\ pc # "salvar" => arquivo' = arquivo]_vars

\* C9 witness: a run over a file left by a previous run saved its records
C9_Witness ==
  /\ pc = "fim"
  /\ mensagem = "salvos"
  /\ arquivo.registros = todos_os_artigos
  /\ arquivo # ArquivoAnterior
  /\ Len(respostas) = 2

\* the position in the accumulator where the current page starts
AntesDaPagina == Len(BlocosRecebidos) - Len(artigos_na_pagina)

\* C10: an unexpected exception at block j of page k stops the loop without
\* another request and without propagating; the save step then runs on the
\* records of the pages before k followed by the first j-1 records of page k
C10_ErroInesperadoSalvaParcial ==
  /\ [](/\ pc # "abortado"
        /\ termino = "inesperado" =>
             /\ pc \in {"salvar", "fim"}
             /\ Cheia(respostas[Len(respostas)])
             /\ Len(todos_os_artigos) = AntesDaPagina + indice - 1
             /\ \A n \in 1..Len(todos_os_artigos) :
                  todos_os_artigos[n] = Esperado(n)
             /\ pc = "fim" =>
                  /\ escritas = IF todos_os_artigos # <<>> THEN 1 ELSE 0
                  /\ mensagem = "salvos" =>
                       arquivo.registros = todos_os_artigos)
  /\ [][termino = "inesperado" =>
          /\ requisicoes' = requisicoes
          /\ todos_os_artigos' = todos_os_artigos
          /\ indice' = indice]_vars

\* C10 witness: the model failed on the second block of the second page and
\* the three records appended before were saved
C10_Witness ==
  /\ termino = "inesperado"
  /\ pc = "fim"
  /\ Len(PaginasDe(respostas)) = 2
  /\ Len(respostas[1].artigos) = 2
  /\ indice = 2
  /\ Len(arquivo.registros) = 3

====
